---- MODULE Spec2Model ----
(***************************************************************************)
(* Model of scripts/update-appcast.py: one invocation reads the release    *)
(* configuration from the environment, parses the appcast file, inserts a  *)
(* new release item in front of the existing items, prunes the item list   *)
(* to MAX_VERSIONS, writes the tree back and then normalises the text.     *)
(*                                                                         *)
(* Representation.                                                         *)
(*  - The environment is a function from the names that are set to their   *)
(*    values; a name that is unset is outside its DOMAIN.                  *)
(*  - Strings the code treats as opaque are TLA+ strings; FILE_SIZE, which *)
(*    the code parses with int(), is a sequence of one-character strings.  *)
(*  - An element is a record [tag, oid, sub]: oid stands for the identity  *)
(*    of the element (the code finds and removes elements by identity),    *)
(*    sub holds the sub-elements the code sets.                            *)
(*  - The file is [kind |-> "xml", root, eofNewlines] or, after a write    *)
(*    that failed half way, [kind |-> "partial"].  Of the text only the    *)
(*    two features the post-processing pass changes are kept: whether some *)
(*    line carries trailing whitespace (root.dirtyWs, kept by the parser   *)
(*    in text and tail of the elements) and how many newlines end the file.*)
(***************************************************************************)
EXTENDS Integers, Sequences, FiniteSets, TLC

VARIABLES file, env, clock, nextOid, result, before, runs, orig, added

vars == <<file, env, clock, nextOid, result, before, runs, orig, added>>

(***************************************************************************)
(* Bounds of the model.                                                    *)
(***************************************************************************)
MaxOld == 11        \* most item elements in the initial document
MaxRuns == 3        \* most successive invocations under SpecRuns

(***************************************************************************)
(* Constants of the program.                                               *)
(***************************************************************************)
MAX_VERSIONS == 10

RequiredKeys == <<"VERSION", "BUILD_NUMBER", "DOWNLOAD_URL">>

SigAttr == "sparkle:edSignature"

Digits == {"0", "1", "2", "3", "4", "5", "6", "7", "8", "9"}

White == {" ", "\n", "\t"}

(***************************************************************************)
(* Sequence helpers.                                                       *)
(***************************************************************************)
SelectTag(s, t) == SelectSeq(s, LAMBDA e : e.tag = t)

SelectNotTag(s, t) == SelectSeq(s, LAMBDA e : e.tag # t)

\* list.index(x): the least position holding x (0 when there is none)
IndexOf(s, x) ==
    IF \E i \in 1..Len(s) : s[i] = x
    THEN CHOOSE i \in 1..Len(s) : s[i] = x /\ \A j \in 1..(i - 1) : s[j] # x
    ELSE 0

\* list.insert(i, x) with i the 1-based position x takes
InsertAt(s, i, x) == SubSeq(s, 1, i - 1) \o <<x>> \o SubSeq(s, i, Len(s))

(***************************************************************************)
(* int(s) of Python, base 10, on the ASCII alphabet: surrounding           *)
(* whitespace is stripped, one sign is allowed, then digits, with single   *)
(* underscores allowed between digits.                                     *)
(***************************************************************************)
RECURSIVE LStrip(_)
LStrip(s) == IF s # <<>> /\ s[1] \in White THEN LStrip(Tail(s)) ELSE s

RECURSIVE RStrip(_)
RStrip(s) ==
    IF s # <<>> /\ s[Len(s)] \in White THEN RStrip(SubSeq(s, 1, Len(s) - 1)) ELSE s

\* variant: str.isdigit() in place of int(): no sign, no surrounding blanks
PyIntParses_digits_only(s) == s # <<>> /\ \A i \in 1..Len(s) : s[i] \in Digits

PyIntParses(s) ==
    LET t == RStrip(LStrip(s))
        u == IF t # <<>> /\ t[1] \in {"+", "-"} THEN Tail(t) ELSE t
    IN  /\ u # <<>>
        /\ u[1] \in Digits
        /\ u[Len(u)] \in Digits
        /\ \A i \in 1..Len(u) : u[i] \in Digits \cup {"_"}
        /\ \A i \in 1..(Len(u) - 1) : ~(u[i] = "_" /\ u[i + 1] = "_")

(***************************************************************************)
(* load_config_from_env                                                    *)
(***************************************************************************)
EnvGet(e, k, default) == IF k \in DOMAIN e THEN e[k] ELSE default

\* variant: BUILD_NUMBER is read before VERSION
FirstMissing_build_first(e) ==
    LET miss == SelectSeq(<<"BUILD_NUMBER", "VERSION", "DOWNLOAD_URL">>,
                          LAMBDA k : k \notin DOMAIN e)
    IN  IF miss = <<>> THEN <<>> ELSE <<miss[1]>>

\* the first required name that is unset, in the order the code reads them
FirstMissing(e) ==
    LET miss == SelectSeq(RequiredKeys, LAMBDA k : k \notin DOMAIN e)
    IN  IF miss = <<>> THEN <<>> ELSE <<miss[1]>>

Raised(msg) == [raised |-> TRUE, msg |-> msg, config |-> <<>>]

load_config_from_env(e) ==
    IF FirstMissing(e) # <<>>
    THEN Raised(<<"Missing required environment variable: ", FirstMissing(e)[1]>>)
    ELSE LET file_size == EnvGet(e, "FILE_SIZE", <<"0">>)
         IN  IF ~PyIntParses(file_size)
             THEN Raised(<<"FILE_SIZE must be a valid integer, got: ", file_size>>)
             ELSE [raised |-> FALSE,
                   msg |-> <<>>,
                   config |-> <<[version |-> e["VERSION"],
                                 build_number |-> e["BUILD_NUMBER"],
                                 download_url |-> e["DOWNLOAD_URL"],
                                 ed_signature |-> EnvGet(e, "ED_SIGNATURE", ""),
                                 file_size |-> file_size,
                                 min_system_version |->
                                     EnvGet(e, "MIN_SYSTEM_VERSION", "15.6")]>>]

(***************************************************************************)
(* create_release_item: config, the clock reading and the identity of the  *)
(* new element.                                                            *)
(***************************************************************************)
\* variant: the signature attribute is set without the test of line 140
EnclosureAttrs_always_signed(config) ==
    [url |-> config.download_url,
     length |-> config.file_size,
     type |-> "application/octet-stream"] @@ ("sparkle:edSignature" :> config.ed_signature)

EnclosureAttrs(config) ==
    LET always == [url |-> config.download_url,
                   length |-> config.file_size,
                   type |-> "application/octet-stream"]
    IN  IF config.ed_signature # ""
        THEN always @@ (SigAttr :> config.ed_signature)
        ELSE always

\* variant: sparkle:version and sparkle:shortVersionString exchanged
create_release_item_swapped(config, now, oid) ==
    [tag |-> "item",
     oid |-> oid,
     sub |-> [title |-> "Version " \o config.version,
              pubDate |-> now,
              version |-> config.version,
              shortVersionString |-> config.build_number,
              minimumSystemVersion |-> config.min_system_version,
              enclosure |-> EnclosureAttrs(config)]]

create_release_item(config, now, oid) ==
    [tag |-> "item",
     oid |-> oid,
     sub |-> [title |-> "Version " \o config.version,
              pubDate |-> now,
              version |-> config.build_number,
              shortVersionString |-> config.version,
              minimumSystemVersion |-> config.min_system_version,
              enclosure |-> EnclosureAttrs(config)]]

(***************************************************************************)
(* prune_old_items: the children of the channel after the removal.         *)
(***************************************************************************)
\* variant: the slice starts one item late, all_items[max_items + 1:]
prune_old_items_off_by_one(children, max_items) ==
    LET all_items == SelectTag(children, "item")
        old == IF Len(all_items) > max_items
               THEN {all_items[i] : i \in (max_items + 2)..Len(all_items)}
               ELSE {}
    IN  SelectSeq(children, LAMBDA e : e \notin old)

prune_old_items(children, max_items) ==
    LET all_items == SelectTag(children, "item")
        old == IF Len(all_items) > max_items
               THEN {all_items[i] : i \in (max_items + 1)..Len(all_items)}
               ELSE {}
    IN  SelectSeq(children, LAMBDA e : e \notin old)

(***************************************************************************)
(* update_appcast, lines 184-189: the insertion of the new item.           *)
(***************************************************************************)
\* variant: channel.insert(0, item), ahead of the channel's metadata
InsertItem_at_front(children, item) == <<item>> \o children

\* variant: an item with the same sparkle:version is replaced by the new one
InsertItem_replacing_same_build(children, item) ==
    LET kept == SelectSeq(children,
                    LAMBDA e : ~(e.tag = "item" /\ "version" \in DOMAIN e.sub
                                 /\ e.sub.version = item.sub.version))
        items == SelectTag(kept, "item")
    IN  IF items # <<>>
        THEN InsertAt(kept, IndexOf(kept, items[1]), item)
        ELSE Append(kept, item)

InsertItem(children, item) ==
    LET items == SelectTag(children, "item")
    IN  IF items # <<>>
        THEN InsertAt(children, IndexOf(children, items[1]), item)
        ELSE Append(children, item)

(***************************************************************************)
(* The file operations of update_appcast.                                  *)
(***************************************************************************)
\* the points where a file operation can fail, and "none"
Faults == {"none", "parse", "write_open", "write_mid", "read",
           "rewrite_open", "rewrite_mid"}

\* what a write that failed half way leaves behind: open(path, "w") has
\* truncated the file and only part of the text has reached it
Partial == [kind |-> "partial"]

\* ET.parse raises on an I/O failure and on text that is no XML document
ParseFails(f, fault) == fault = "parse" \/ f.kind # "xml"

\* ET.parse keeps the tree; what follows the root's end tag is dropped
Parse(f) == f.root

\* variant: the test of line 178 left out
ChannelMissing_never(root) == FALSE

\* root.find("channel") is None
ChannelMissing(root) == ~root.hasChannel

\* tree.write: the text ends with the root's end tag, without a newline
TreeWrite(root) == [kind |-> "xml", root |-> root, eofNewlines |-> 0]

\* variant: the lines joined without the final "\n"
PostProcess_no_final_newline(f) ==
    [kind |-> "xml", root |-> [f.root EXCEPT !.dirtyWs = FALSE], eofNewlines |-> 0]

\* lines 198-200: every line right-stripped, the lines joined by "\n" and
\* one "\n" added
PostProcess(f) ==
    [kind |-> "xml", root |-> [f.root EXCEPT !.dirtyWs = FALSE], eofNewlines |-> 1]

NoResult ==
    [status |-> "none", msg |-> <<>>, config |-> <<>>, item |-> <<>>,
     parsed |-> FALSE, writes |-> 0]

\* how a call ends: the file it leaves and what it did.  writes counts the
\* writes to the appcast path the call began.
Outcome(f, status, msg, config, item, parsed, writes) ==
    [file |-> f,
     result |-> [status |-> status, msg |-> msg, config |-> config,
                 item |-> item, parsed |-> parsed, writes |-> writes]]

(***************************************************************************)
(* update_appcast on file f with environment e, a file operation failing   *)
(* at fault, the clock reading now and oid the identity of the element it  *)
(* creates.                                                                *)
(***************************************************************************)
update_appcast(f, e, fault, now, oid) ==
    LET loaded == load_config_from_env(e)
    IN  IF loaded.raised
        THEN Outcome(f, "AppcastError", loaded.msg, <<>>, <<>>, FALSE, 0)
        ELSE IF ParseFails(f, fault)
        THEN Outcome(f, "ParseFailure", <<>>, loaded.config, <<>>, FALSE, 0)
        ELSE IF ChannelMissing(Parse(f))
        THEN Outcome(f, "AppcastError", <<"No <channel> element found in appcast.xml">>,
                     loaded.config, <<>>, TRUE, 0)
        ELSE LET item == create_release_item(loaded.config[1], now, oid)
                 inserted == InsertItem(Parse(f).children, item)
                 updated == [Parse(f) EXCEPT
                                !.children = prune_old_items(inserted, MAX_VERSIONS)]
                 written == TreeWrite(updated)
                 Fail(g, n) == Outcome(g, "OSError", <<>>, loaded.config, <<item>>, TRUE, n)
             IN  CASE fault = "write_open" -> Fail(f, 1)
                   [] fault = "write_mid" -> Fail(Partial, 1)
                   [] fault = "read" -> Fail(written, 1)
                   [] fault = "rewrite_open" -> Fail(written, 2)
                   [] fault = "rewrite_mid" -> Fail(Partial, 2)
                   [] OTHER -> Outcome(PostProcess(written), "ok", <<>>, loaded.config,
                                       <<item>>, TRUE, 2)

(***************************************************************************)
(* The documents the model starts from.                                    *)
(***************************************************************************)
Meta(tag, oid) == [tag |-> tag, oid |-> oid, sub |-> [text |-> tag]]

OldItem(oid) == [tag |-> "item", oid |-> oid, sub |-> [title |-> "Version 0.9"]]

Layouts == {"bare", "lead", "mixed"}

Items(n) == [i \in 1..n |-> "item"]

\* the tags of the channel's children: items only; metadata before the
\* items; metadata before, between and after the items
Tags(k, layout) ==
    CASE layout = "bare" -> Items(k)
      [] layout = "lead" -> <<"title", "description">> \o Items(k)
      [] OTHER -> <<"title">> \o Items(IF k > 0 THEN 1 ELSE 0) \o <<"language">>
                  \o Items(IF k > 0 THEN k - 1 ELSE 0) \o <<"copyright">>

Children(k, layout) ==
    LET tags == Tags(k, layout)
    IN  [i \in 1..Len(tags) |->
            IF tags[i] = "item" THEN OldItem(i) ELSE Meta(tags[i], i)]

XmlFile(hasChannel, children, dirtyWs, eofNewlines) ==
    [kind |-> "xml",
     root |-> [hasChannel |-> hasChannel, children |-> children, dirtyWs |-> dirtyWs],
     eofNewlines |-> eofNewlines]

\* text as a formatter leaves it, and text with trailing blanks and blank
\* lines at the end
Formats == {<<FALSE, 1>>, <<TRUE, 2>>}

InitFiles ==
    {XmlFile(TRUE, Children(k, l), fm[1], fm[2]) :
        k \in 0..MaxOld, l \in Layouts, fm \in Formats}
    \cup {XmlFile(FALSE, <<>>, fm[1], fm[2]) : fm \in Formats}

(***************************************************************************)
(* The environments the model runs the script in.                          *)
(***************************************************************************)
BaseEnv ==
    [VERSION |-> "1.2.3", BUILD_NUMBER |-> "2026",
     DOWNLOAD_URL |-> "https://example.com/app.zip", ED_SIGNATURE |-> "sIg==",
     FILE_SIZE |-> <<"4", "2">>, MIN_SYSTEM_VERSION |-> "14.0"]

Unset == "<unset>"

\* e with k unset when v is Unset, and set to v otherwise
Setting(e, k, v) ==
    IF v = Unset THEN [j \in DOMAIN e \ {k} |-> e[j]]
    ELSE [j \in DOMAIN e \cup {k} |-> IF j = k THEN v ELSE e[j]]

FileSizes ==
    {<<"0">>, <<"4", "2">>, <<"a", "b", "c">>, <<"-", "1">>, <<" ", "7", "\n">>, <<>>}

SetFileSize(e, v) == [j \in DOMAIN e \cup {"FILE_SIZE"} |-> IF j = "FILE_SIZE" THEN v ELSE e[j]]

UnsetFileSize(e) == [j \in DOMAIN e \ {"FILE_SIZE"} |-> e[j]]

\* the optional names vary, the required ones are set
OptEnvs ==
    LET sized == {SetFileSize(BaseEnv, v) : v \in FileSizes} \cup {UnsetFileSize(BaseEnv)}
    IN  {Setting(Setting(e, "ED_SIGNATURE", s), "MIN_SYSTEM_VERSION", m) :
            e \in sized, s \in {Unset, "", "sIg=="}, m \in {Unset, "14.0"}}

\* the required names vary, next to a FILE_SIZE that parses and one that does not
ReqEnvs ==
    {Setting(Setting(Setting(e, "VERSION", v), "BUILD_NUMBER", b), "DOWNLOAD_URL", u) :
        e \in {BaseEnv, SetFileSize(BaseEnv, <<"a", "b", "c">>)},
        v \in {Unset, "", "1.2.3"},
        b \in {Unset, "", "2026"},
        u \in {Unset, "", "https://example.com/app.zip"}}

Envs == OptEnvs \cup ReqEnvs

(***************************************************************************)
(* State machine.  before is the file as the last call found it, orig the  *)
(* file at the start, added the items the successful calls built, in call  *)
(* order.                                                                  *)
(***************************************************************************)
Init ==
    /\ file \in InitFiles
    /\ env = <<>>
    /\ clock = 0
    /\ nextOid = Len(IF file.root.hasChannel THEN file.root.children ELSE <<>>) + 1
    /\ result = NoResult
    /\ before = file
    /\ runs = 0
    /\ orig = file
    /\ added = <<>>

\* one call of update_appcast; the clock may have advanced by tick
Call(e, fault, tick) ==
    LET out == update_appcast(file, e, fault, clock + tick, nextOid)
    IN  /\ file' = out.file
        /\ env' = e
        /\ clock' = clock + tick
        /\ nextOid' = nextOid + Len(out.result.item)
        /\ result' = out.result
        /\ before' = file
        /\ runs' = runs + 1
        /\ added' = IF out.result.status = "ok" THEN added \o out.result.item ELSE added
        /\ UNCHANGED orig

\* lines 203-204: the script calls update_appcast once
Main ==
    /\ runs = 0
    /\ \E e \in Envs, fault \in Faults, tick \in {0, 1} : Call(e, fault, tick)

Next == Main

Spec == Init /\ [][Next]_vars

(***************************************************************************)
(* Successive invocations on the same file, for as long as they succeed:   *)
(* the run that fails is the last one.                                     *)
(***************************************************************************)
RunEnvs ==
    {BaseEnv,
     [BaseEnv EXCEPT !["VERSION"] = "1.2.4", !["BUILD_NUMBER"] = "2027"],
     Setting(BaseEnv, "VERSION", Unset)}

RunFaults == {"none", "parse", "write_mid"}

InitRuns == Init /\ ~file.root.dirtyWs

Rerun ==
    /\ runs < MaxRuns
    /\ Len(added) = runs
    /\ \E e \in RunEnvs, fault \in RunFaults, tick \in {0, 1} : Call(e, fault, tick)

NextRuns == Rerun

SpecRuns == InitRuns /\ [][NextRuns]_vars

(***************************************************************************)
(* Vocabulary of the properties.                                           *)
(***************************************************************************)
Min(a, b) == IF a < b THEN a ELSE b

Reverse(s) == [i \in 1..Len(s) |-> s[Len(s) + 1 - i]]

ItemsOf(f) == SelectTag(f.root.children, "item")

NonItemsOf(f) == SelectNotTag(f.root.children, "item")

Called == runs > 0

Succeeded == result.status = "ok"

IsSet(k) == k \in DOMAIN env

MissingMsg(k) == <<"Missing required environment variable: ", k>>

\* the required names the code reads before k
ReadBefore(k) ==
    CASE k = "VERSION" -> {}
      [] k = "BUILD_NUMBER" -> {"VERSION"}
      [] OTHER -> {"VERSION", "BUILD_NUMBER"}

RequiredSet == {"VERSION", "BUILD_NUMBER", "DOWNLOAD_URL"}

AllRequiredSet == \A k \in RequiredSet : IsSet(k)

Normalised(f) == f.kind = "xml" /\ ~f.root.dirtyWs /\ f.eofNewlines = 1

\* f holds the channel of the file before with the built item inserted
Updated(f) ==
    /\ f.kind = "xml"
    /\ result.item # <<>>
    /\ ItemsOf(f) = result.item \o SubSeq(ItemsOf(before), 1, Min(Len(ItemsOf(before)), 9))
    /\ NonItemsOf(f) = NonItemsOf(before)

FileSizeMsg(v) == <<"FILE_SIZE must be a valid integer, got: ", v>>

FileSizeUnsetIsZero ==
    (Called /\ AllRequiredSet /\ ~IsSet("FILE_SIZE")) =>
        /\ result.config # <<>>
        /\ result.config[1].file_size = <<"0">>
        /\ result.item # <<>> => result.item[1].sub.enclosure.length = <<"0">>

FileSizeRejected(v) ==
    (Called /\ AllRequiredSet /\ IsSet("FILE_SIZE") /\ env["FILE_SIZE"] = v) =>
        /\ result.status = "AppcastError"
        /\ result.msg = FileSizeMsg(v)
        /\ result.config = <<>>
        /\ result.writes = 0
        /\ file = before

FileSizeAccepted(v) ==
    (Called /\ AllRequiredSet /\ IsSet("FILE_SIZE") /\ env["FILE_SIZE"] = v) =>
        /\ result.config # <<>>
        /\ result.config[1].file_size = v
        /\ result.item # <<>> => result.item[1].sub.enclosure.length = v

Range(s) == {s[i] : i \in 1..Len(s)}

\* the children of s that stand before its first item (all, when it has none)
Leading(s) ==
    {s[i] : i \in {j \in 1..Len(s) : \A h \in 1..j : s[h].tag # "item"}}

(***************************************************************************)
(* C1: after a successful update of a channel holding the items            *)
(* old_1 .. old_K, the channel's items are the new item followed by        *)
(* old_1 .. old_min(K,9) in their order: K+1 items when K < 10, 10 items   *)
(* when K >= 10.                                                           *)
(***************************************************************************)
C1_NewFirstThenFirst9 ==
    Succeeded =>
        LET old == ItemsOf(before)
            new == ItemsOf(file)
            K == Len(old)
        IN  /\ new = result.item \o SubSeq(old, 1, Min(K, 9))
            /\ Len(new) = IF K < 10 THEN K + 1 ELSE 10
            /\ K = 0 => Len(new) = 1

C1_Witness ==
    /\ Succeeded
    /\ Len(ItemsOf(before)) = 11
    /\ Len(ItemsOf(file)) = 10
    /\ ItemsOf(file)[10] = ItemsOf(before)[9]

(***************************************************************************)
(* C2: when a required name is unset the call fails with the error that    *)
(* names the first unset name in reading order (so it names k whenever k   *)
(* is unset and the names read before k are set), the file is not parsed   *)
(* and its content is what it was before the call.                         *)
(***************************************************************************)
C2_MissingKeyNamed ==
    \A k \in RequiredSet :
        (Called /\ ~IsSet(k)) =>
            /\ result.status = "AppcastError"
            /\ \E j \in RequiredSet : ~IsSet(j) /\ result.msg = MissingMsg(j)
            /\ (\A j \in ReadBefore(k) : IsSet(j)) => result.msg = MissingMsg(k)
            /\ ~result.parsed
            /\ result.writes = 0
            /\ file = before

C2_Witness ==
    /\ Called
    /\ IsSet("VERSION") /\ ~IsSet("BUILD_NUMBER") /\ IsSet("DOWNLOAD_URL")
    /\ result.msg = MissingMsg("BUILD_NUMBER")

(***************************************************************************)
(* C3: when the parsed root has no channel child the call fails with the   *)
(* structure error, builds no item, begins no write and leaves the file    *)
(* as it was.                                                              *)
(***************************************************************************)
C3_NoChannelNoWrite ==
    (Called /\ result.parsed /\ ~before.root.hasChannel) =>
        /\ result.status = "AppcastError"
        /\ result.msg = <<"No <channel> element found in appcast.xml">>
        /\ result.item = <<>>
        /\ result.writes = 0
        /\ file = before

C3_Witness ==
    /\ Called
    /\ result.parsed
    /\ ~before.root.hasChannel
    /\ result.status = "AppcastError"

(***************************************************************************)
(* C4.  The statement as claimed: a call that fails leaves the file as it  *)
(* was, and the file changes only in calls that succeed, to the updated    *)
(* and normalised document.                                                *)
(***************************************************************************)
C4_NoPartialOutcome ==
    Called =>
        /\ ~Succeeded => file = before
        /\ file # before => (Succeeded /\ Updated(file) /\ Normalised(file))

(***************************************************************************)
(* C4 as amended: a call that fails before it begins the structural write  *)
(* (configuration error, parse failure, missing channel) leaves the file   *)
(* as it was, and a call that succeeds leaves the updated and normalised   *)
(* document; a call that fails at or after the structural write leaves     *)
(* the file as it was (the open failed), truncated, or updated but not     *)
(* normalised (no final newline).                                          *)
(***************************************************************************)
C4_FailureBeforeWriteKeepsFile ==
    Called =>
        /\ (~Succeeded /\ result.writes = 0) => file = before
        /\ Succeeded => (result.writes = 2 /\ Updated(file) /\ Normalised(file))
        /\ (~Succeeded /\ result.writes > 0) =>
              \/ file = before
              \/ file = Partial
              \/ Updated(file) /\ file.eofNewlines = 0
                    /\ file.root.dirtyWs = before.root.dirtyWs

C4_Witness ==
    /\ Called
    /\ ~Succeeded
    /\ result.writes = 1
    /\ file # before
    /\ Updated(file)
    /\ ~Normalised(file)

(***************************************************************************)
(* C5: the statement as claimed.  When VERSION, BUILD_NUMBER or            *)
(* DOWNLOAD_URL is set to the empty string the loader fails: no config is  *)
(* produced and no item is added; every config produced has these three    *)
(* fields non-empty.                                                       *)
(***************************************************************************)
C5_RequiredNonEmpty ==
    Called =>
        /\ (\E k \in RequiredSet : IsSet(k) /\ env[k] = "") =>
              /\ result.config = <<>>
              /\ result.item = <<>>
              /\ file = before
        /\ result.config # <<>> =>
              /\ result.config[1].version # ""
              /\ result.config[1].build_number # ""
              /\ result.config[1].download_url # ""

(***************************************************************************)
(* C6.  The statement as claimed: FILE_SIZE unset gives file_size and      *)
(* enclosure length "0"; FILE_SIZE "abc" and FILE_SIZE "-1" make the       *)
(* loader fail with the error that carries the value, the file unchanged.  *)
(***************************************************************************)
C6_NonNegativeOnly ==
    /\ FileSizeUnsetIsZero
    /\ FileSizeRejected(<<"a", "b", "c">>)
    /\ FileSizeRejected(<<"-", "1">>)

(***************************************************************************)
(* C6 as amended: FILE_SIZE is accepted exactly when int() parses it,      *)
(* negative integers included.  Unset gives "0"; "abc" and the empty       *)
(* string make the loader fail with the error that carries the value, the  *)
(* file unchanged; "0", "42", " 7\n" and "-1" are accepted and stored as   *)
(* given.                                                                  *)
(***************************************************************************)
C6_AnyIntegerAccepted ==
    /\ FileSizeUnsetIsZero
    /\ FileSizeRejected(<<"a", "b", "c">>)
    /\ FileSizeRejected(<<>>)
    /\ FileSizeAccepted(<<"0">>)
    /\ FileSizeAccepted(<<"4", "2">>)
    /\ FileSizeAccepted(<<" ", "7", "\n">>)
    /\ FileSizeAccepted(<<"-", "1">>)

C6_Witness ==
    /\ Succeeded
    /\ IsSet("FILE_SIZE")
    /\ env["FILE_SIZE"] = <<"-", "1">>
    /\ ItemsOf(file)[1].sub.enclosure.length = <<"-", "1">>

(***************************************************************************)
(* C7: the enclosure of the built item carries the signature attribute     *)
(* exactly when ED_SIGNATURE is set to a non-empty string, then with that  *)
(* string as its value; url, length and type are always set.               *)
(***************************************************************************)
C7_SignatureIffNonEmpty ==
    result.item # <<>> =>
        LET attrs == result.item[1].sub.enclosure
            signed == IsSet("ED_SIGNATURE") /\ env["ED_SIGNATURE"] # ""
        IN  /\ (SigAttr \in DOMAIN attrs) <=> signed
            /\ signed => attrs[SigAttr] = env["ED_SIGNATURE"]
            /\ (SigAttr \in DOMAIN attrs) <=> (result.config[1].ed_signature # "")
            /\ {"url", "length", "type"} \subseteq DOMAIN attrs
            /\ attrs.url = env["DOWNLOAD_URL"]
            /\ attrs.type = "application/octet-stream"

C7_Witness ==
    /\ Succeeded
    /\ IsSet("ED_SIGNATURE")
    /\ env["ED_SIGNATURE"] = ""
    /\ DOMAIN ItemsOf(file)[1].sub.enclosure = {"url", "length", "type"}

(***************************************************************************)
(* C8: the built item's sparkle:version is the build number, its           *)
(* sparkle:shortVersionString is the version, and its title is "Version "  *)
(* followed by the version; when the two strings differ neither field      *)
(* holds the other's value.                                                *)
(***************************************************************************)
C8_VersionFieldsNotSwapped ==
    result.item # <<>> =>
        LET sub == result.item[1].sub
        IN  /\ sub.version = env["BUILD_NUMBER"]
            /\ sub.shortVersionString = env["VERSION"]
            /\ sub.title = "Version " \o env["VERSION"]
            /\ env["VERSION"] # env["BUILD_NUMBER"] =>
                  /\ sub.version # env["VERSION"]
                  /\ sub.shortVersionString # env["BUILD_NUMBER"]
                  /\ sub.title # "Version " \o env["BUILD_NUMBER"]

C8_Witness ==
    /\ Succeeded
    /\ env["VERSION"] = "1.2.3"
    /\ env["BUILD_NUMBER"] = "2026"
    /\ ItemsOf(file)[1].sub.version = "2026"
    /\ ItemsOf(file)[1].sub.shortVersionString = "1.2.3"

(***************************************************************************)
(* C9: a successful update keeps every non-item child of the channel, in   *)
(* the same relative order; the non-item children that preceded the first  *)
(* item still precede every item; the new item stands immediately before   *)
(* the formerly first item, or is the last child when the channel held no  *)
(* item; every child that is removed is an item.                           *)
(***************************************************************************)
C9_OnlyItemsChange ==
    Succeeded =>
        LET b == before.root.children
            a == file.root.children
            item == result.item[1]
        IN  /\ NonItemsOf(file) = NonItemsOf(before)
            /\ \A e \in Leading(b), x \in Range(ItemsOf(file)) :
                  IndexOf(a, e) > 0 /\ IndexOf(a, e) < IndexOf(a, x)
            /\ ItemsOf(before) # <<>> =>
                  \E i \in 1..(Len(a) - 1) : a[i] = item /\ a[i + 1] = ItemsOf(before)[1]
            /\ ItemsOf(before) = <<>> => a = Append(b, item)
            /\ \A e \in Range(b) \ Range(a) : e.tag = "item"

C9_Witness ==
    /\ Succeeded
    /\ Len(ItemsOf(before)) > 9
    /\ Len(NonItemsOf(before)) = 3
    /\ before.root.children[1].tag = "title"
    /\ file.root.children[2] = result.item[1]
    /\ file.root.children[4].tag = "language"
    /\ file.root.children[Len(file.root.children)].tag = "copyright"

(***************************************************************************)
(* C10: while every run so far has succeeded, starting from K <= 10        *)
(* items, the channel holds min(K + runs, 10) items: the items the runs    *)
(* built, the latest first, followed by the original items that survive.   *)
(* No item replaces another: two runs with the same configuration leave    *)
(* two items.                                                              *)
(***************************************************************************)
C10_RunsAccumulateUpTo10 ==
    (orig.root.hasChannel /\ Len(ItemsOf(orig)) <= 10 /\ Len(added) = runs) =>
        LET K == Len(ItemsOf(orig))
            cur == ItemsOf(file)
        IN  /\ Len(cur) = Min(K + runs, 10)
            /\ Len(cur) <= 10
            /\ cur = SubSeq(Reverse(added) \o ItemsOf(orig), 1, Min(K + runs, 10))
            /\ \A i \in 1..Min(runs, 10) : cur[i].sub.version = added[runs + 1 - i].sub.version

C10_Witness ==
    /\ runs = 3
    /\ Len(added) = 3
    /\ Len(ItemsOf(orig)) = 8
    /\ added[2].sub = added[3].sub
    /\ ItemsOf(file)[1].sub = ItemsOf(file)[2].sub
    /\ ItemsOf(file)[1] # ItemsOf(file)[2]
    /\ Len(ItemsOf(file)) = 10

====
